---- MODULE Spec2Model ----
(***************************************************************************)
(* WhatsApp socket channel (pkg/channels): connection lifecycle, error-    *)
(* triggered reconnection with exponential backoff, send and read paths.   *)
(* One goroutine step per action; a step is one critical section of        *)
(* connMu, one unsynchronised access to the retry manager, or one I/O      *)
(* call on a transport handle.                                             *)
(***************************************************************************)
EXTENDS Integers, Sequences, FiniteSets, Bags, TLC

\* ---------------------------------------------------------------- bounds
MaxHandles == 3      \* transport handles the dialer ever returns
MaxAccepts == 2      \* handshakes the bridge of the main scenarios accepts
MaxTasks   == 2      \* reconnection goroutines alive at the same time
MaxStarts  == 2      \* calls of Start that connect successfully
MainStarts == 1      \* of which the main scenarios use this many
MaxSends   == 1      \* frames written by Send
MaxCallers == 2      \* goroutines calling Send at the same time
MainCallers == 1     \* of which the main scenarios use this many
MaxFrames  == 2      \* frames the peer sends
MainFrames == 1      \* of which the main scenarios use this many
MaxCalls   == 8      \* calls recorded by the retry-policy driver
MaxStops   == 2      \* calls of Stop
MaxMedia   == 2      \* media references of one message

\* ------------------------------------------------------ program constants
MaxReconnectAttempts  == 5
InitialReconnectDelay == 1
MaxReconnectDelay     == 30
MaxContentLength      == 4096
MaxPhoneLength        == 50
MaxErrorLength        == 500

Handles == 1..MaxHandles
Loops   == 1..MaxStarts
Callers == 1..MaxCallers
NoConn  == 0

VARIABLES
  conn,          \* c.conn: live handle, NoConn when nil
  connected,     \* c.connected
  connecting,    \* c.connecting
  running,       \* BaseChannel running flag
  attempts,      \* retryManager.attempts
  currentDelay,  \* retryManager.currentDelay (seconds)
  start,         \* the caller of Start: [pc, err]
  stop,          \* the caller of Stop: [pc, calls], stopCh and ctx
  listen,        \* read loops, one per successful Start: [pc, h, f]
  keepalive,     \* keepalive loops, one per successful Start: [pc, h]
  send,          \* the callers of Send, each [pc, h, out, err]
  task,          \* bag of reconnection goroutines, each [pc, delay]
  opened,        \* handles returned by the dialer so far (1..opened)
  closed,        \* handles on which the channel called Close
  broken,        \* handles whose transport failed (peer close, timeout)
  inq,           \* per handle, frames sent by the peer and not yet read
  bus,           \* inbound records pushed to the bus
  wire,          \* frames written by Send and handlePing: <<handle, frame>>
  hist           \* observations used by the properties

vars == <<conn, connected, connecting, running, attempts, currentDelay,
          start, stop, listen, keepalive, send, task, opened, closed, broken,
          inq, bus, wire, hist>>

chanVars == <<conn, connected, connecting, running>>
retryVars == <<attempts, currentDelay>>
envVars == <<opened, closed, broken, inq>>

\* ------------------------------------------------------------ retry policy
\* variant admitting one attempt too many
ShouldRetry_OffByOne(a) == a <= MaxReconnectAttempts
\* ConnectionRetry.ShouldRetry
ShouldRetry(a) == a < MaxReconnectAttempts

\* variant giving up one call too late
NoMoreRetries_OffByOne(a) == a > MaxReconnectAttempts
\* the guard at the head of ConnectionRetry.NextDelay
NoMoreRetries(a) == a >= MaxReconnectAttempts

\* r.currentDelay *= 2
Doubled(d) == d * 2

\* if r.currentDelay > r.maxDelay { r.currentDelay = r.maxDelay }
Capped(d) == IF d > MaxReconnectDelay THEN MaxReconnectDelay ELSE d

\* ConnectionRetry.NextDelay run by one goroutine alone
NextDelay(a, d) ==
  IF NoMoreRetries(a)
    THEN [ret |-> 0, attempts |-> a, currentDelay |-> d]
    ELSE [ret |-> d, attempts |-> a + 1, currentDelay |-> Capped(Doubled(d))]

\* ConnectionRetry.Reset
Reset == [attempts |-> 0, currentDelay |-> InitialReconnectDelay]

\* --------------------------------------------------------------- validator
\* MessageValidator.validatePhoneNumber
validatePhoneNumber(phone) == Len(phone) >= 1 /\ Len(phone) <= MaxPhoneLength

\* MessageValidator.ValidateOutgoing on the message Send builds (no media)
ValidateOutgoing(msg) ==
  /\ msg.type = "message"
  /\ validatePhoneNumber(msg.to)
  /\ Len(msg.content) <= MaxContentLength

validStatuses == {"delivered", "read", "sent", "failed"}

\* variant that does not ask for the id
validateIncomingStatus_NoIdCheck(msg) ==
  IF msg.status = "" THEN "missing status"
  ELSE IF msg.status \notin validStatuses THEN "invalid status"
  ELSE "none"
\* MessageValidator.validateIncomingStatus
validateIncomingStatus(msg) ==
  IF msg.id = <<>> THEN "missing id"
  ELSE IF msg.status = "" THEN "missing status"
  ELSE IF msg.status \notin validStatuses THEN "invalid status"
  ELSE "none"

\* MessageValidator.validateIncomingError
validateIncomingError(msg) ==
  IF msg.error = <<>> THEN "missing error"
  ELSE IF Len(msg.error) > MaxErrorLength THEN "error too long"
  ELSE "none"

\* MessageValidator.ValidateIncoming: json.Unmarshal, validateMessageType,
\* then the validator of the kind (a message without media, a status, an
\* error; a ping or a pong has none)
ValidateIncoming(f) ==
  /\ f.json
  /\ f.type \in {"message", "status", "error", "ping", "pong"}
  /\ f.type = "status" => validateIncomingStatus(f) = "none"
  /\ f.type = "error" => validateIncomingError(f) = "none"
  /\ f.type = "message" =>
       /\ f.from # <<>>
       /\ validatePhoneNumber(f.from)
       /\ f.content # <<>>
       /\ Len(f.content) <= MaxContentLength

\* frames the peer may send
ValidFrame ==
  [json |-> TRUE, type |-> "message", from |-> <<"+", "1">>, content |-> <<"A">>,
   id |-> <<>>, status |-> "", error |-> <<>>]
NoSenderFrame ==
  [json |-> TRUE, type |-> "message", from |-> <<>>, content |-> <<"A">>,
   id |-> <<>>, status |-> "", error |-> <<>>]
Frames == {ValidFrame, NoSenderFrame}
SecondFrame ==
  [json |-> TRUE, type |-> "message", from |-> <<"+", "1">>, content |-> <<"B">>,
   id |-> <<>>, status |-> "", error |-> <<>>]
UnknownKindFrame ==
  [json |-> TRUE, type |-> "call", from |-> <<"+", "1">>, content |-> <<"A">>,
   id |-> <<>>, status |-> "", error |-> <<>>]
MalformedFrame ==
  [json |-> FALSE, type |-> "", from |-> <<>>, content |-> <<>>,
   id |-> <<>>, status |-> "", error |-> <<>>]
PingFrame ==
  [json |-> TRUE, type |-> "ping", from |-> <<>>, content |-> <<>>,
   id |-> <<>>, status |-> "", error |-> <<>>]
StatusFrame ==
  [json |-> TRUE, type |-> "status", from |-> <<>>, content |-> <<>>,
   id |-> <<"m", "1">>, status |-> "read", error |-> <<>>]
UnknownStatusFrame == [StatusFrame EXCEPT !.status = "seen"]
NoIdStatusFrame == [StatusFrame EXCEPT !.id = <<>>]
NoStatusFrame == [StatusFrame EXCEPT !.status = ""]
ErrorFrame ==
  [json |-> TRUE, type |-> "error", from |-> <<>>, content |-> <<>>,
   id |-> <<>>, status |-> "", error |-> <<"e">>]
EmptyErrorFrame == [ErrorFrame EXCEPT !.error = <<>>]
PongFrame == [PingFrame EXCEPT !.type = "pong"]
AllFrames ==
  Frames \cup {SecondFrame, UnknownKindFrame, MalformedFrame, PingFrame,
               StatusFrame, UnknownStatusFrame, NoIdStatusFrame, NoStatusFrame,
               ErrorFrame, EmptyErrorFrame, PongFrame}

\* outbound bus records handed to Send
OutboundRecords ==
  { [chatID |-> <<"+", "1">>, content |-> <<"h", "i">>],
    [chatID |-> <<>>, content |-> <<"h", "i">>] }

\* the OutgoingMessage Send builds from a bus record
Outgoing(rec) == [type |-> "message", to |-> rec.chatID, content |-> rec.content]

\* the OutgoingMessage of a caller of Send that has built none
NoMessage == [type |-> "", to |-> <<>>, content |-> <<>>]

\* the OutgoingMessage handlePing builds
PongMessage == [type |-> "pong", to |-> <<>>, content |-> <<>>]

\* BaseChannel.HandleMessage with an empty allow-list: one push per message
HandleMessage(b, f) ==
  Append(b, [sender |-> f.from, chat |-> f.from, content |-> f.content])

\* ------------------------------------------------ validator: whole messages
\* a string is a sequence of characters; the characters that matter are
\* named: NUL, BEL and VT are below 32 and not tab, CR or LF
Stripped == {"NUL", "BEL", "VT"}
Space == {" ", "TAB", "LF", "CR"}
\* characters that take two bytes in UTF-8
Wide == {"é"}

Rep(c, n) == [i \in 1..n |-> c]

\* len(s) of Go: bytes
ByteLen(s) == Len(s) + Cardinality({i \in DOMAIN s : s[i] \in Wide})

\* strings.TrimSpace
TrimSpace(s) ==
  SubSeq(s,
         CHOOSE i \in 1..(Len(s) + 1) :
           /\ i = Len(s) + 1 \/ s[i] \notin Space
           /\ \A j \in 1..(i - 1) : s[j] \in Space,
         CHOOSE i \in 0..Len(s) :
           /\ i = 0 \/ s[i] \notin Space
           /\ \A j \in (i + 1)..Len(s) : s[j] \in Space)

\* strings.Map dropping r < 32 other than \n, \r, \t
StripControl(s) == SelectSeq(s, LAMBDA c : c \notin Stripped)

\* strings.ReplaceAll(content, "\x00", "")
StripNul(s) == SelectSeq(s, LAMBDA c : c # "NUL")

\* variant that trims before it strips
sanitizeContent_TrimsFirst(content) ==
  IF ByteLen(content) > MaxContentLength
    THEN [err |-> "content too long", content |-> <<>>]
    ELSE [err |-> "none", content |-> StripNul(StripControl(TrimSpace(content)))]
\* MessageValidator.sanitizeContent: length check, strip, trim
sanitizeContent(content) ==
  IF ByteLen(content) > MaxContentLength
    THEN [err |-> "content too long", content |-> <<>>]
    ELSE [err |-> "none", content |-> TrimSpace(StripNul(StripControl(content)))]

HasPrefix(s, pre) == Len(s) >= Len(pre) /\ SubSeq(s, 1, Len(pre)) = pre
HasSuffix(s, suf) ==
  Len(s) >= Len(suf) /\ SubSeq(s, Len(s) - Len(suf) + 1, Len(s)) = suf
Contains(s, sub) ==
  \E i \in 1..(Len(s) - Len(sub) + 1) : SubSeq(s, i, i + Len(sub) - 1) = sub

\* strings.ToLower on the letters the paths use
ToLower(s) ==
  [i \in DOMAIN s |->
     CASE s[i] = "P" -> "p" [] s[i] = "N" -> "n" [] s[i] = "G" -> "g"
       [] OTHER -> s[i]]

validExtensions ==
  { <<".", "j", "p", "g">>, <<".", "j", "p", "e", "g">>, <<".", "p", "n", "g">>,
    <<".", "g", "i", "f">>, <<".", "m", "p", "4">>, <<".", "m", "p", "3">>,
    <<".", "p", "d", "f">>, <<".", "t", "x", "t">> }

\* variant that looks for the traversal at the start of the path only
validateMediaPath_PrefixOnly(path) ==
  IF HasPrefix(path, <<".", ".">>) THEN "traversal"
  ELSE IF ~\E ext \in validExtensions : HasSuffix(ToLower(path), ext)
    THEN "extension"
    ELSE "none"
\* MessageValidator.validateMediaPath
validateMediaPath(path) ==
  IF Contains(path, <<".", ".">>) THEN "traversal"
  ELSE IF ~\E ext \in validExtensions : HasSuffix(ToLower(path), ext)
    THEN "extension"
    ELSE "none"

\* the first error of validateMediaPath over the list, "none" if there is none
validateMedia(media) ==
  LET bad == {i \in DOMAIN media : validateMediaPath(media[i]) # "none"} IN
    IF bad = {} THEN "none"
    ELSE validateMediaPath(media[CHOOSE i \in bad : \A j \in bad : i <= j])

\* json.Marshal: the fields in declaration order, omitempty dropping the
\* empty ones; a serialization is a sequence of <<name, value>>
Field(name, value, empty) == IF empty THEN <<>> ELSE <<<<name, value>>>>

\* json.Marshal of an OutgoingMessage
MarshalOutgoing(m) ==
  <<<<"type", m.type>>>>
    \o Field("to", m.to, m.to = <<>>)
    \o Field("content", m.content, m.content = <<>>)
    \o Field("media", m.media, m.media = <<>>)
    \o Field("timestamp", m.timestamp, m.timestamp = 0)
    \o Field("signature", m.signature, m.signature = <<>>)

\* json.Marshal of an IncomingMessage (chat and from_name are empty in every
\* message considered and so never serialized)
MarshalIncoming(m) ==
  <<<<"type", m.type>>>>
    \o Field("id", m.id, m.id = <<>>)
    \o Field("from", m.from, m.from = <<>>)
    \o Field("content", m.content, m.content = <<>>)
    \o Field("media", m.media, m.media = <<>>)
    \o Field("status", m.status, m.status = "")
    \o Field("error", m.error, m.error = <<>>)
    \o Field("timestamp", m.timestamp, m.timestamp = 0)
    \o Field("signature", m.signature, m.signature = <<>>)

\* the value of a field of a serialization, its zero value when absent
Lookup(data, name, zero) ==
  IF \E i \in DOMAIN data : data[i][1] = name
    THEN data[CHOOSE i \in DOMAIN data : data[i][1] = name][2]
    ELSE zero

\* json.Unmarshal into an IncomingMessage: fields it does not declare
\* (such as "to") are dropped
UnmarshalIncoming(data) ==
  [type      |-> Lookup(data, "type", ""),
   id        |-> Lookup(data, "id", <<>>),
   from      |-> Lookup(data, "from", <<>>),
   content   |-> Lookup(data, "content", <<>>),
   media     |-> Lookup(data, "media", <<>>),
   status    |-> Lookup(data, "status", ""),
   error     |-> Lookup(data, "error", <<>>),
   timestamp |-> Lookup(data, "timestamp", 0),
   signature |-> Lookup(data, "signature", <<>>)]

\* MessageValidator.calculateSignature: HMAC-SHA256 in hex, taken to be
\* free of collisions
calculateSignature(key, data) == <<"hmac", key, data>>

NoKey == <<>>

\* MessageValidator.VerifySignature
VerifySignature(key, msg) ==
  IF key = NoKey THEN "none"
  ELSE IF msg.signature = <<>> THEN "missing signature"
  ELSE IF msg.signature #
            calculateSignature(key, MarshalIncoming([msg EXCEPT !.signature = <<>>]))
    THEN "invalid signature"
    ELSE "none"

\* MessageValidator.signMessage
signMessage(key, msg) ==
  IF key = NoKey THEN msg
  ELSE [msg EXCEPT !.signature =
          calculateSignature(key, MarshalOutgoing([msg EXCEPT !.signature = <<>>]))]

\* MessageValidator.validateIncomingMessage; msg is the message as the call
\* leaves it
validateIncomingMessage(key, msg) ==
  IF msg.from = <<>> THEN [err |-> "missing from", msg |-> msg]
  ELSE IF ~validatePhoneNumber(msg.from)
    THEN [err |-> "invalid sender", msg |-> msg]
  ELSE IF msg.content = <<>> /\ msg.media = <<>>
    THEN [err |-> "no content or media", msg |-> msg]
  ELSE IF msg.content # <<>> /\ sanitizeContent(msg.content).err # "none"
    THEN [err |-> sanitizeContent(msg.content).err, msg |-> msg]
  ELSE LET m == IF msg.content # <<>>
                  THEN [msg EXCEPT !.content = sanitizeContent(msg.content).content]
                  ELSE msg
       IN IF validateMedia(m.media) # "none"
            THEN [err |-> validateMedia(m.media), msg |-> m]
          ELSE [err |-> VerifySignature(key, m), msg |-> m]

\* variant that verifies the signature of every kind of frame
ValidateIncomingData_VerifiesAll(key, data) ==
  LET msg == UnmarshalIncoming(data) IN
    IF msg.type \notin {"message", "status", "error", "ping", "pong"}
      THEN [err |-> "invalid type", msg |-> msg]
    ELSE IF msg.type = "message" THEN validateIncomingMessage(key, msg)
    ELSE IF msg.type = "status" /\ validateIncomingStatus(msg) # "none"
      THEN [err |-> validateIncomingStatus(msg), msg |-> msg]
    ELSE IF msg.type = "error" /\ validateIncomingError(msg) # "none"
      THEN [err |-> validateIncomingError(msg), msg |-> msg]
    ELSE [err |-> VerifySignature(key, msg), msg |-> msg]
\* MessageValidator.ValidateIncoming on a serialization
ValidateIncomingData(key, data) ==
  LET msg == UnmarshalIncoming(data) IN
    IF msg.type \notin {"message", "status", "error", "ping", "pong"}
      THEN [err |-> "invalid type", msg |-> msg]
    ELSE IF msg.type = "message" THEN validateIncomingMessage(key, msg)
    ELSE IF msg.type = "status"
      THEN [err |-> validateIncomingStatus(msg), msg |-> msg]
    ELSE IF msg.type = "error"
      THEN [err |-> validateIncomingError(msg), msg |-> msg]
    ELSE [err |-> "none", msg |-> msg]

\* time.Now().Unix() at the call of ValidateOutgoing
Now == 7

\* variant that signs the message before it sanitizes the content
ValidateOutgoingResult_SignsFirst(key, msg) ==
  IF msg.type # "message" THEN [err |-> "type", msg |-> msg]
  ELSE IF ~validatePhoneNumber(msg.to) THEN [err |-> "invalid recipient", msg |-> msg]
  ELSE IF sanitizeContent(msg.content).err # "none"
    THEN [err |-> sanitizeContent(msg.content).err, msg |-> msg]
  ELSE IF validateMedia(msg.media) # "none"
    THEN [err |-> validateMedia(msg.media), msg |-> msg]
  ELSE [err |-> "none",
        msg |-> [signMessage(key, [msg EXCEPT !.timestamp =
                                     IF @ = 0 THEN Now ELSE @])
                   EXCEPT !.content = sanitizeContent(msg.content).content]]
\* MessageValidator.ValidateOutgoing; msg is the message as the call leaves it
ValidateOutgoingResult(key, msg) ==
  IF msg.type # "message" THEN [err |-> "type", msg |-> msg]
  ELSE IF ~validatePhoneNumber(msg.to) THEN [err |-> "invalid recipient", msg |-> msg]
  ELSE IF sanitizeContent(msg.content).err # "none"
    THEN [err |-> sanitizeContent(msg.content).err, msg |-> msg]
  ELSE LET m == [msg EXCEPT !.content = sanitizeContent(msg.content).content] IN
    IF validateMedia(m.media) # "none"
      THEN [err |-> validateMedia(m.media), msg |-> m]
    ELSE [err |-> "none",
          msg |-> signMessage(key, [m EXCEPT !.timestamp =
                                      IF @ = 0 THEN Now ELSE @])]

\* the call of a validator or configuration operation under examination
NoCall == [fn |-> "none", key |-> NoKey, in |-> <<>>, out |-> <<>>]

\* -------------------------------------------------------------------- state
Init ==
  /\ conn = NoConn
  /\ connected = FALSE
  /\ connecting = FALSE
  /\ running = FALSE
  /\ attempts = 0
  /\ currentDelay = InitialReconnectDelay
  /\ start = [pc |-> "idle", err |-> "none", ok |-> 0]
  /\ stop = [pc |-> "idle", calls |-> 0, ch |-> FALSE, ctx |-> FALSE]
  /\ listen = [k \in Loops |-> [pc |-> "off", h |-> NoConn, f |-> <<>>]]
  /\ keepalive = [k \in Loops |-> [pc |-> "off", h |-> NoConn]]
  /\ send = [s \in Callers |->
               [pc |-> "idle", h |-> NoConn, out |-> NoMessage, err |-> "none"]]
  /\ task = EmptyBag
  /\ opened = 0
  /\ closed = {}
  /\ broken = {}
  /\ inq = [h \in Handles |-> <<>>]
  /\ bus = <<>>
  /\ wire = <<>>
  /\ hist = [rets |-> <<>>, since |-> 0, fresh |-> FALSE, frames |-> 0,
             reconn |-> {}, expired |-> {}, sent |-> <<>>, pushed |-> <<>>,
             status |-> <<>>, left |-> {},
             call |-> NoCall]

\* a handle on which reads and writes fail
Dead(h) == h \in broken \/ h \in closed

\* the reconnection goroutines in flight, and one of them taking a step
InFlight == BagToSet(task)
Spawned(r) == task (+) SetToBag({r})
Moved(r, q) == (task (-) SetToBag({r})) (+) SetToBag({q})
Returned(r) == task (-) SetToBag({r})

\* ------------------------------------------------------------------- Start
\* Start, up to the call of connect; the owner of the channel calls Start
\* and Stop one after the other and does not start a stopped instance
StartBegin ==
  /\ start.pc = "idle"
  /\ start.ok < MaxStarts
  /\ stop.pc = "idle" /\ ~stop.ch
  /\ IF connecting
       THEN /\ start' = [start EXCEPT !.err = "in progress"]
            /\ UNCHANGED connecting
       ELSE /\ connecting' = TRUE
            /\ start' = [start EXCEPT !.pc = "dial", !.err = "none"]
  /\ UNCHANGED <<stop, conn, connected, running, retryVars, listen, keepalive,
                 send, task, envVars, bus, wire, hist>>

\* variant that stores the handle and leaves the flag as it was
Connect_FlagUntouched(h, bornBroken, byTask) ==
  /\ opened < MaxHandles
  /\ h = opened + 1
  /\ opened' = h
  /\ broken' = IF bornBroken THEN broken \cup {h} ELSE broken
  /\ conn' = h
  /\ connected' = connected
  /\ connecting' = FALSE
  /\ hist' = [hist EXCEPT !.since = 0, !.fresh = TRUE,
                          !.reconn = IF byTask THEN @ \cup {h} ELSE @]
  /\ UNCHANGED <<closed, inq>>
\* the tail of connect once the dialer returned a handle that passed
\* validateBridgeResponse: c.conn, c.connected, c.connecting under connMu
Connect(h, bornBroken, byTask) ==
  /\ opened < MaxHandles
  /\ h = opened + 1
  /\ opened' = h
  /\ broken' = IF bornBroken THEN broken \cup {h} ELSE broken
  /\ conn' = h
  /\ connected' = TRUE
  /\ connecting' = FALSE
  /\ hist' = [hist EXCEPT !.since = 0, !.fresh = TRUE,
                          !.reconn = IF byTask THEN @ \cup {h} ELSE @]
  /\ UNCHANGED <<closed, inq>>

\* connect succeeds inside Start
StartConnectOk(bornBroken) ==
  /\ start.pc = "dial"
  /\ \E h \in Handles : Connect(h, bornBroken, FALSE)
  /\ start' = [start EXCEPT !.pc = "run"]
  /\ UNCHANGED <<stop, running, retryVars, listen, keepalive, send, task, bus, wire>>

\* variant that forgets to clear connecting
StartConnectFail_KeepsConnecting ==
  /\ start.pc = "dial"
  /\ start' = [start EXCEPT !.pc = "idle", !.err = "connect"]
  /\ UNCHANGED <<stop, chanVars, retryVars, listen, keepalive, send, task,
                 envVars, bus, wire, hist>>
\* connect fails inside Start: connecting cleared, error returned
StartConnectFail ==
  /\ start.pc = "dial"
  /\ connecting' = FALSE
  /\ start' = [start EXCEPT !.pc = "idle", !.err = "connect"]
  /\ UNCHANGED <<stop, conn, connected, running, retryVars, listen, keepalive,
                 send, task, envVars, bus, wire, hist>>

\* c.setRunning(true)
StartSetRunning ==
  /\ start.pc = "run"
  /\ running' = TRUE
  /\ start' = [start EXCEPT !.pc = "reset"]
  /\ UNCHANGED <<stop, conn, connected, connecting, retryVars, listen, keepalive,
                 send, task, envVars, bus, wire, hist>>

\* c.retryManager.Reset() in Start
StartReset ==
  /\ start.pc = "reset"
  /\ attempts' = Reset.attempts
  /\ currentDelay' = Reset.currentDelay
  /\ start' = [start EXCEPT !.pc = "spawn"]
  /\ UNCHANGED <<stop, chanVars, listen, keepalive, send, task, envVars, bus, wire,
                 hist>>

\* go c.listen(ctx); go c.keepalive(ctx); return nil
StartSpawn ==
  /\ start.pc = "spawn"
  /\ listen' = [listen EXCEPT ![start.ok + 1] = [pc |-> "top", h |-> NoConn, f |-> <<>>]]
  /\ keepalive' = [keepalive EXCEPT ![start.ok + 1] = [pc |-> "wait", h |-> NoConn]]
  /\ start' = [pc |-> "idle", err |-> "none", ok |-> start.ok + 1]
  /\ UNCHANGED <<stop, chanVars, retryVars, send, task, envVars, bus, wire, hist>>

\* ------------------------------------------------- handleConnectionError
\* the read loops that were running when the channel left Connected
LeftBehind ==
  IF connected
    THEN [hist EXCEPT !.left = @ \cup {k \in Loops :
                                         listen[k].pc \notin {"off", "done"}}]
    ELSE hist

\* variant that tears the connection down without go attemptReconnection
handleConnectionError_NoReconnect ==
  /\ connected' = FALSE
  /\ closed' = IF conn # NoConn THEN closed \cup {conn} ELSE closed
  /\ conn' = NoConn
  /\ hist' = LeftBehind
  /\ UNCHANGED <<connecting, running, retryVars, opened, broken, task>>
\* connected=false, live handle closed and cleared, go attemptReconnection
handleConnectionError ==
  /\ BagCardinality(task) < MaxTasks
  /\ connected' = FALSE
  /\ closed' = IF conn # NoConn THEN closed \cup {conn} ELSE closed
  /\ conn' = NoConn
  /\ task' = Spawned([pc |-> "should", delay |-> 0])
  /\ hist' = LeftBehind
  /\ UNCHANGED <<connecting, running, retryVars, opened, broken>>

\* ------------------------------------------------------------------ listen
\* head of the loop, neither ctx.Done() nor stopCh ready: snapshot of conn
\* and connected under RLock; when not connected the loop sleeps one second
\* and starts over
ListenTop(k) ==
  /\ listen[k].pc = "top"
  /\ ~stop.ch /\ ~stop.ctx
  /\ IF ~connected \/ conn = NoConn
       THEN UNCHANGED listen
       ELSE listen' = [listen EXCEPT ![k] = [pc |-> "read", h |-> conn, f |-> <<>>]]
  /\ UNCHANGED <<chanVars, retryVars, start, stop, keepalive, send, task, envVars,
                 bus, wire, hist>>

\* conn.ReadMessage returns a frame: validate, dispatch by type
ListenReadFrame(k) ==
  /\ listen[k].pc = "read"
  /\ listen[k].h \notin closed
  /\ inq[listen[k].h] # <<>>
  /\ inq' = [inq EXCEPT ![listen[k].h] = Tail(@)]
  /\ listen' = [listen EXCEPT ![k] = [pc |-> "frame", h |-> listen[k].h,
                                       f |-> <<Head(inq[listen[k].h])>>]]
  /\ UNCHANGED <<chanVars, retryVars, start, stop, keepalive, send, task, opened,
                 closed, broken, bus, wire, hist>>

\* handlePing: the pong is written only if ValidateOutgoing accepts it
handlePing(w) ==
  IF conn # NoConn /\ ValidateOutgoing(PongMessage)
    THEN Append(w, <<conn, PongMessage>>) ELSE w

\* variant that dispatches without looking at the result of ValidateIncoming
ListenDispatch_SkipsValidation(k) ==
  /\ listen[k].pc = "frame"
  /\ LET f == listen[k].f[1] IN
       /\ bus' = IF f.type = "message" THEN HandleMessage(bus, f) ELSE bus
       /\ wire' = IF f.type = "ping" THEN handlePing(wire) ELSE wire
       /\ hist' = IF ValidateIncoming(f) /\ f.type = "message"
                    THEN [hist EXCEPT !.pushed = Append(@, <<listen[k].h, f>>)]
                  ELSE IF f.type = "status"
                    THEN [hist EXCEPT !.status = Append(@, <<f.id, f.status>>)]
                  ELSE hist
  /\ listen' = [listen EXCEPT ![k] = [pc |-> "top", h |-> NoConn, f |-> <<>>]]
  /\ UNCHANGED <<chanVars, retryVars, start, stop, keepalive, send, task, opened,
                 closed, broken, inq>>
\* variant whose status case forwards the frame like a message
ListenDispatch_StatusToBus(k) ==
  /\ listen[k].pc = "frame"
  /\ LET f == listen[k].f[1] IN
       /\ bus' = IF ValidateIncoming(f) /\ f.type \in {"message", "status"}
                   THEN HandleMessage(bus, f) ELSE bus
       /\ wire' = IF ValidateIncoming(f) /\ f.type = "ping"
                    THEN handlePing(wire) ELSE wire
       /\ hist' = IF ValidateIncoming(f) /\ f.type = "message"
                    THEN [hist EXCEPT !.pushed = Append(@, <<listen[k].h, f>>)]
                  ELSE IF ValidateIncoming(f) /\ f.type = "status"
                    THEN [hist EXCEPT !.status = Append(@, <<f.id, f.status>>)]
                  ELSE hist
  /\ listen' = [listen EXCEPT ![k] = [pc |-> "top", h |-> NoConn, f |-> <<>>]]
  /\ UNCHANGED <<chanVars, retryVars, start, stop, keepalive, send, task, opened,
                 closed, broken, inq>>
\* the rest of the iteration: ValidateIncoming, then dispatch by type
\* (handleIncomingMessage, handleStatusMessage, handlePing), continue
ListenDispatch(k) ==
  /\ listen[k].pc = "frame"
  /\ LET f == listen[k].f[1] IN
       /\ bus' = IF ValidateIncoming(f) /\ f.type = "message"
                   THEN HandleMessage(bus, f) ELSE bus
       /\ wire' = IF ValidateIncoming(f) /\ f.type = "ping"
                    THEN handlePing(wire) ELSE wire
       /\ hist' = IF ValidateIncoming(f) /\ f.type = "message"
                    THEN [hist EXCEPT !.pushed = Append(@, <<listen[k].h, f>>)]
                  ELSE IF ValidateIncoming(f) /\ f.type = "status"
                    THEN [hist EXCEPT !.status = Append(@, <<f.id, f.status>>)]
                  ELSE hist
  /\ listen' = [listen EXCEPT ![k] = [pc |-> "top", h |-> NoConn, f |-> <<>>]]
  /\ UNCHANGED <<chanVars, retryVars, start, stop, keepalive, send, task, opened,
                 closed, broken, inq>>

\* conn.ReadMessage returns an error: handleConnectionError, continue
ListenReadErr(k) ==
  /\ listen[k].pc = "read"
  /\ Dead(listen[k].h)
  /\ handleConnectionError
  /\ listen' = [listen EXCEPT ![k] = [pc |-> "top", h |-> NoConn, f |-> <<>>]]
  /\ UNCHANGED <<start, stop, keepalive, send, inq, bus, wire>>

\* --------------------------------------------------------------- keepalive
\* ticker fires; sendPing takes its snapshot under RLock
KeepaliveTick(k) ==
  /\ keepalive[k].pc = "wait"
  /\ IF ~connected \/ conn = NoConn
       THEN keepalive' = [keepalive EXCEPT ![k] = [pc |-> "hce", h |-> NoConn]]
       ELSE keepalive' = [keepalive EXCEPT ![k] = [pc |-> "ping", h |-> conn]]
  /\ UNCHANGED <<chanVars, retryVars, start, stop, listen, send, task, envVars,
                 bus, wire, hist>>

\* the ping control frame is written
KeepalivePingOk(k) ==
  /\ keepalive[k].pc = "ping"
  /\ keepalive[k].h \notin closed
  /\ keepalive' = [keepalive EXCEPT ![k] = [pc |-> "wait", h |-> NoConn]]
  /\ UNCHANGED <<chanVars, retryVars, start, stop, listen, send, task, envVars,
                 bus, wire, hist>>

\* the ping write fails: sendPing returns the error
KeepalivePingErr(k) ==
  /\ keepalive[k].pc = "ping"
  /\ Dead(keepalive[k].h)
  /\ keepalive' = [keepalive EXCEPT ![k] = [pc |-> "hce", h |-> NoConn]]
  /\ UNCHANGED <<chanVars, retryVars, start, stop, listen, send, task, envVars,
                 bus, wire, hist>>

\* sendPing returned an error ("not connected" or the write error):
\* log it, handleConnectionError
KeepaliveError(k) ==
  /\ keepalive[k].pc = "hce"
  /\ handleConnectionError
  /\ keepalive' = [keepalive EXCEPT ![k] = [pc |-> "wait", h |-> NoConn]]
  /\ UNCHANGED <<start, stop, listen, send, inq, bus, wire>>

\* -------------------------------------------------------------------- Stop
\* variant whose select has no stopCh case
ListenExit_IgnoresStopCh(k) ==
  /\ listen[k].pc = "top"
  /\ stop.ctx
  /\ listen' = [listen EXCEPT ![k] = [pc |-> "done", h |-> NoConn, f |-> <<>>]]
  /\ UNCHANGED <<chanVars, retryVars, start, stop, keepalive, send, task,
                 envVars, bus, wire, hist>>
\* the select at the head of the read loop finds ctx.Done() or stopCh ready
ListenExit(k) ==
  /\ listen[k].pc = "top"
  /\ stop.ch \/ stop.ctx
  /\ listen' = [listen EXCEPT ![k] = [pc |-> "done", h |-> NoConn, f |-> <<>>]]
  /\ UNCHANGED <<chanVars, retryVars, start, stop, keepalive, send, task,
                 envVars, bus, wire, hist>>

\* the select of the keepalive loop takes ctx.Done() or stopCh
KeepaliveExit(k) ==
  /\ keepalive[k].pc = "wait"
  /\ stop.ch \/ stop.ctx
  /\ keepalive' = [keepalive EXCEPT ![k] = [pc |-> "done", h |-> NoConn]]
  /\ UNCHANGED <<chanVars, retryVars, start, stop, listen, send, task,
                 envVars, bus, wire, hist>>

\* the context handed to Start is cancelled
CtxCancel ==
  /\ start.pc = "idle" /\ start.ok > 0
  /\ ~stop.ctx
  /\ stop' = [stop EXCEPT !.ctx = TRUE]
  /\ UNCHANGED <<chanVars, retryVars, start, listen, keepalive, send, task,
                 envVars, bus, wire, hist>>

\* the read loops and keepalive loops counted by c.wg have all returned
LoopsDone ==
  \A k \in Loops : /\ listen[k].pc \in {"off", "done"}
                   /\ keepalive[k].pc \in {"off", "done"}

\* Stop: close(c.stopCh); closing a closed channel panics
StopClose ==
  /\ stop.pc = "idle"
  /\ start.pc = "idle"
  /\ stop.calls < MaxStops
  /\ stop' = IF stop.ch THEN [stop EXCEPT !.pc = "panic"]
                        ELSE [stop EXCEPT !.pc = "wait", !.ch = TRUE]
  /\ UNCHANGED <<chanVars, retryVars, start, listen, keepalive, send, task,
                 envVars, bus, wire, hist>>

\* Stop: c.wg.Wait() returns
StopWait ==
  /\ stop.pc = "wait"
  /\ LoopsDone
  /\ stop' = [stop EXCEPT !.pc = "close"]
  /\ UNCHANGED <<chanVars, retryVars, start, listen, keepalive, send, task,
                 envVars, bus, wire, hist>>

\* Stop: under connMu, close frame and Close on the live handle, conn = nil,
\* connected = false, connecting = false
StopDisconnect ==
  /\ stop.pc = "close"
  /\ closed' = IF conn # NoConn THEN closed \cup {conn} ELSE closed
  /\ conn' = NoConn
  /\ connected' = FALSE
  /\ connecting' = FALSE
  /\ stop' = [stop EXCEPT !.pc = "run"]
  /\ hist' = LeftBehind
  /\ UNCHANGED <<running, retryVars, start, listen, keepalive, send, task,
                 opened, broken, inq, bus, wire>>

\* Stop: c.setRunning(false), return nil
StopSetRunning ==
  /\ stop.pc = "run"
  /\ running' = FALSE
  /\ stop' = [stop EXCEPT !.pc = "idle", !.calls = @ + 1]
  /\ UNCHANGED <<conn, connected, connecting, retryVars, start, listen,
                 keepalive, send, task, envVars, bus, wire, hist>>

\* -------------------------------------------------------------------- Send
\* caller s of Send returns e
Returns(s, e) ==
  [send EXCEPT ![s] = [pc |-> "idle", h |-> NoConn, out |-> NoMessage, err |-> e]]

\* variant that validates before looking at the connection
SendBegin_ValidatesFirst(s, rec) ==
  /\ send[s].pc = "idle"
  /\ Len(wire) < MaxSends
  /\ IF ~ValidateOutgoing(Outgoing(rec))
       THEN send' = Returns(s, "validation")
       ELSE IF ~connected \/ conn = NoConn
         THEN send' = Returns(s, "not connected")
         ELSE send' = [send EXCEPT ![s] = [pc |-> "write", h |-> conn,
                                           out |-> Outgoing(rec),
                                           err |-> "none"]]
  /\ UNCHANGED <<chanVars, retryVars, start, stop, listen, keepalive, task,
                 envVars, bus, wire, hist>>
\* snapshot under RLock, not-connected check, ValidateOutgoing, Marshal
SendBegin(s, rec) ==
  /\ send[s].pc = "idle"
  /\ Len(wire) < MaxSends
  /\ IF ~connected \/ conn = NoConn
       THEN send' = Returns(s, "not connected")
       ELSE IF ~ValidateOutgoing(Outgoing(rec))
         THEN send' = Returns(s, "validation")
         ELSE send' = [send EXCEPT ![s] = [pc |-> "write", h |-> conn,
                                           out |-> Outgoing(rec),
                                           err |-> "none"]]
  /\ UNCHANGED <<chanVars, retryVars, start, stop, listen, keepalive, task,
                 envVars, bus, wire, hist>>

\* conn.WriteMessage succeeds
SendWriteOk(s) ==
  /\ send[s].pc = "write"
  /\ send[s].h \notin closed
  /\ wire' = Append(wire, <<send[s].h, send[s].out>>)
  /\ send' = Returns(s, "none")
  /\ UNCHANGED <<chanVars, retryVars, start, stop, listen, keepalive, task,
                 envVars, bus, hist>>

\* variant that tries the write again on the handle stored by then
SendWriteErr_Retries(s) ==
  /\ send[s].pc = "write"
  /\ Dead(send[s].h)
  /\ handleConnectionError
  /\ send' = [send EXCEPT ![s].h = conn]
  /\ UNCHANGED <<start, stop, listen, keepalive, inq, bus, wire>>
\* conn.WriteMessage fails: handleConnectionError, error returned
SendWriteErr(s) ==
  /\ send[s].pc = "write"
  /\ Dead(send[s].h)
  /\ handleConnectionError
  /\ send' = Returns(s, "write")
  /\ UNCHANGED <<start, stop, listen, keepalive, inq, bus, wire>>

\* ----------------------------------------------------- attemptReconnection
\* if !c.retryManager.ShouldRetry() { return }
TaskShouldRetry ==
  \E r \in InFlight :
    /\ r.pc = "should"
    /\ task' = IF ShouldRetry(attempts)
                 THEN Moved(r, [pc |-> "check", delay |-> 0])
                 ELSE Returned(r)
    /\ UNCHANGED <<chanVars, retryVars, start, stop, listen, keepalive, send,
                   envVars, bus, wire, hist>>

\* NextDelay: if r.attempts >= r.maxAttempts { return 0 }
TaskNextDelayCheck ==
  \E r \in InFlight :
    /\ r.pc = "check"
    /\ task' = IF NoMoreRetries(attempts)
                 THEN Moved(r, [pc |-> "dial", delay |-> 0])
                 ELSE Moved(r, [pc |-> "inc", delay |-> 0])
    /\ UNCHANGED <<chanVars, retryVars, start, stop, listen, keepalive, send,
                   envVars, bus, wire, hist>>

\* NextDelay: r.attempts++
TaskNextDelayInc ==
  \E r \in InFlight :
    /\ r.pc = "inc"
    /\ attempts' = attempts + 1
    /\ task' = Moved(r, [pc |-> "read", delay |-> 0])
    /\ UNCHANGED <<chanVars, currentDelay, start, stop, listen, keepalive, send,
                   envVars, bus, wire, hist>>

\* NextDelay: delay := r.currentDelay
TaskNextDelayRead ==
  \E r \in InFlight :
    /\ r.pc = "read"
    /\ task' = Moved(r, [pc |-> "double", delay |-> currentDelay])
    /\ hist' = [hist EXCEPT !.fresh = FALSE]
    /\ UNCHANGED <<chanVars, retryVars, start, stop, listen, keepalive, send,
                   envVars, bus, wire>>

\* NextDelay: r.currentDelay *= 2
TaskNextDelayDouble ==
  \E r \in InFlight :
    /\ r.pc = "double"
    /\ currentDelay' = Doubled(currentDelay)
    /\ task' = Moved(r, [r EXCEPT !.pc = "cap"])
    /\ UNCHANGED <<chanVars, attempts, start, stop, listen, keepalive, send,
                   envVars, bus, wire, hist>>

\* NextDelay: cap at maxDelay, return delay; then time.Sleep(delay)
TaskNextDelayCap ==
  \E r \in InFlight :
    /\ r.pc = "cap"
    /\ currentDelay' = Capped(currentDelay)
    /\ task' = Moved(r, [r EXCEPT !.pc = "dial"])
    /\ UNCHANGED <<chanVars, attempts, start, stop, listen, keepalive, send,
                   envVars, bus, wire, hist>>

\* c.connect succeeds in the reconnection goroutine
TaskConnectOk(bornBroken) ==
  \E r \in InFlight :
    /\ r.pc = "dial"
    /\ \E h \in Handles : Connect(h, bornBroken, TRUE)
    /\ task' = Moved(r, [pc |-> "reset", delay |-> 0])
    /\ UNCHANGED <<running, retryVars, start, stop, listen, keepalive, send, bus, wire>>

\* c.connect fails in the reconnection goroutine: log and return
TaskConnectFail ==
  \E r \in InFlight :
    /\ r.pc = "dial"
    /\ task' = Returned(r)
    /\ hist' = [hist EXCEPT !.since = @ + 1]
    /\ UNCHANGED <<chanVars, retryVars, start, stop, listen, keepalive, send,
                   envVars, bus, wire>>

\* variant that returns without Reset
TaskReset_Skipped ==
  \E r \in InFlight :
    /\ r.pc = "reset"
    /\ task' = Returned(r)
    /\ UNCHANGED <<chanVars, retryVars, start, stop, listen, keepalive, send,
                   envVars, bus, wire, hist>>
\* c.retryManager.Reset() after a successful reconnection
TaskReset ==
  \E r \in InFlight :
    /\ r.pc = "reset"
    /\ attempts' = Reset.attempts
    /\ currentDelay' = Reset.currentDelay
    /\ task' = Returned(r)
    /\ UNCHANGED <<chanVars, start, stop, listen, keepalive, send, envVars, bus,
                   wire, hist>>

\* -------------------------------------------------------------------- peer
\* the transport of an open handle fails: peer close, network, read deadline
PeerClose(h) ==
  /\ h \in 1..opened
  /\ ~Dead(h)
  /\ broken' = broken \cup {h}
  /\ UNCHANGED <<chanVars, retryVars, start, stop, listen, keepalive, send, task,
                 opened, closed, inq, bus, wire, hist>>

\* the read deadline connect set on the handle (60 s, renewed only by pongs)
\* runs out while the read loop waits on a silent peer and the keepalive
\* loop has returned, so that no ping asks for a pong any more
ReadDeadline(k) ==
  /\ listen[k].pc = "read"
  /\ keepalive[k].pc = "done"
  /\ ~Dead(listen[k].h)
  /\ inq[listen[k].h] = <<>>
  /\ broken' = broken \cup {listen[k].h}
  /\ hist' = [hist EXCEPT !.expired = @ \cup {listen[k].h}]
  /\ UNCHANGED <<chanVars, retryVars, start, stop, listen, keepalive, send,
                 task, opened, closed, inq, bus, wire>>

\* the peer sends a text frame on a connection it holds open
PeerSend(h, f) ==
  /\ h \in 1..opened
  /\ ~Dead(h)
  /\ hist.frames < MaxFrames
  /\ inq' = [inq EXCEPT ![h] = Append(@, f)]
  /\ hist' = [hist EXCEPT !.frames = @ + 1, !.sent = Append(@, <<h, f>>)]
  /\ UNCHANGED <<chanVars, retryVars, start, stop, listen, keepalive, send, task,
                 opened, closed, broken, bus, wire>>

\* --------------------------------------------------- calls of the validator
Key1 == <<"k">>
Key2 == <<"q">>
Keys == {NoKey, Key1}

PathPng == <<"a", ".", "p", "n", "g">>
PathUpper == <<"a", ".", "P", "N", "G">>
PathExe == <<"a", ".", "e", "x", "e">>
PathUp == <<".", ".", "/", "a", ".", "p", "n", "g">>
PathInnerUp == <<"x", "/", ".", ".", "/", "a", ".", "p", "n", "g">>
Paths == {PathPng, PathUpper, PathExe, PathUp, PathInnerUp}

\* lists of at most MaxMedia media references
MediaLists == UNION {[1..n -> Paths] : n \in 0..MaxMedia}

Contents ==
  { <<>>, <<"A">>, <<" ">>, <<" ", "A", "LF">>, <<"A", "NUL", "B", "BEL">>,
    <<"TAB", "A", "LF", "B", "CR">>, <<"NUL", " ", "A">>,
    Rep("A", MaxContentLength), Rep("A", MaxContentLength + 1),
    <<" ">> \o Rep("A", MaxContentLength),
    <<"NUL">> \o Rep("A", MaxContentLength),
    Rep("é", MaxContentLength \div 2 + 1) }

Senders == {<<>>, <<"+", "1">>, Rep("9", MaxPhoneLength + 1)}

\* content and media of the messages validated: every content with little
\* media, every media list with little content
Payloads ==
  (Contents \X {<<>>, <<PathPng>>}) \cup ({<<>>, <<"A">>} \X MediaLists)

\* the signatures a peer may put on the unsigned message m: none, the hash
\* of m as sent, the hash of m with its content sanitized, a hash under
\* another key
SignaturesFor(m) ==
  { <<>>,
    calculateSignature(Key1, MarshalIncoming(m)),
    calculateSignature(Key1, MarshalIncoming(
      [m EXCEPT !.content = sanitizeContent(m.content).content])),
    calculateSignature(Key2, MarshalIncoming(m)) }

InMessages ==
  UNION { { [type |-> ty, id |-> <<>>, from |-> from, content |-> p[1],
             media |-> p[2], status |-> "", error |-> <<>>,
             timestamp |-> 5, signature |-> <<>>] :
            from \in Senders, p \in Payloads } :
          ty \in {"message"} }

\* frames of the kinds status, error, ping and pong
ControlMessages ==
  { [type |-> ty, id |-> id, from |-> <<>>, content |-> <<>>, media |-> <<>>,
     status |-> st, error |-> er, timestamp |-> 5, signature |-> <<>>] :
      ty \in {"status", "error", "ping", "pong"},
      id \in {<<>>, <<"m", "1">>},
      st \in {"", "sent", "delivered", "read", "failed", "seen"},
      er \in {<<>>, <<"e">>, Rep("e", MaxErrorLength),
              Rep("e", MaxErrorLength + 1)} }

OutMessages ==
  { [type |-> ty, to |-> to, content |-> p[1], media |-> p[2],
     timestamp |-> ts, signature |-> sig] :
      ty \in {"message", "pong"}, to \in {<<>>, <<"+", "1">>}, p \in Payloads,
      ts \in {0, 5}, sig \in {<<>>, <<"o", "l", "d">>} }

\* one call is examined at a time
Examine(c) ==
  /\ hist' = [hist EXCEPT !.call = c]
  /\ UNCHANGED <<chanVars, retryVars, start, stop, listen, keepalive, send,
                 task, envVars, bus, wire>>

\* a frame arrives and goes through ValidateIncoming
CallValidateIncoming ==
  /\ hist.call.fn = "none"
  /\ \E key \in Keys, m \in InMessages \cup ControlMessages :
     \E sig \in SignaturesFor(m) :
       LET sent == [m EXCEPT !.signature = sig] IN
         Examine([fn |-> "ValidateIncoming", key |-> key, in |-> sent,
                  out |-> ValidateIncomingData(key, MarshalIncoming(sent))])

\* ValidateOutgoing is called on an outbound message
CallValidateOutgoing ==
  /\ hist.call.fn = "none"
  /\ \E key \in Keys, m \in OutMessages :
       Examine([fn |-> "ValidateOutgoing", key |-> key, in |-> m,
                out |-> ValidateOutgoingResult(key, m)])

\* the content field of a serialization with one character appended
Tamper(data) ==
  [i \in DOMAIN data |->
     IF data[i][1] = "content" THEN <<"content", Append(data[i][2], "X")>>
     ELSE data[i]]

\* the serialization of a message signed by ValidateOutgoing is decoded as
\* an inbound message and passed to VerifySignature under the same key
CallVerifySerialized(tampered) ==
  /\ hist.call.fn = "ValidateOutgoing"
  /\ hist.call.out.err = "none"
  /\ hist.call.key # NoKey
  /\ tampered => hist.call.out.msg.content # <<>>
  /\ LET data == MarshalOutgoing(hist.call.out.msg)
         recv == IF tampered THEN Tamper(data) ELSE data
     IN Examine([fn |-> "VerifySignature", key |-> hist.call.key,
                 in |-> [data |-> data, tampered |-> tampered],
                 out |-> [err |-> VerifySignature(hist.call.key,
                                                  UnmarshalIncoming(recv)),
                          msg |-> UnmarshalIncoming(recv)]])

\* ------------------------------------- construction, REST variant, schemes
\* NewWhatsAppChannel of the REST-capable variant: the business API is used
\* when both the phone number id and the access token are configured
useFacebookAPI(cfg) == cfg.phoneNumberID # <<>> /\ cfg.accessToken # <<>>

\* FacebookWhatsAppClient.ValidateCredentials: the GET fails, or answers
\* with a status that must be 200
ValidateCredentials(probe) ==
  IF probe.failed THEN "failed to send request"
  ELSE IF probe.status # 200 THEN "credential validation failed"
  ELSE "none"

\* variant that goes on to the socket path after a successful probe
FacebookStart_FallsThrough(cfg, probe) ==
  IF useFacebookAPI(cfg) /\ ValidateCredentials(probe) # "none"
    THEN [err |-> ValidateCredentials(probe), probes |-> 1, spawned |-> {}]
    ELSE [err |-> "none", probes |-> IF useFacebookAPI(cfg) THEN 1 ELSE 0,
          spawned |-> {"connectLoop"}]
\* WhatsAppChannel.Start of the REST-capable variant: the error returned,
\* the probes sent and the goroutines started
FacebookStart(cfg, probe) ==
  IF useFacebookAPI(cfg)
    THEN [err |-> ValidateCredentials(probe), probes |-> 1, spawned |-> {}]
    ELSE [err |-> "none", probes |-> 0, spawned |-> {"connectLoop"}]

FacebookConfigs ==
  [phoneNumberID : {<<>>, <<"1", "2">>}, accessToken : {<<>>, <<"t">>},
   bridgeURL : {<<>>, <<"wss", ":", "/", "/", "h">>}]

Probes == [failed : BOOLEAN, status : {200, 401, 500}]

\* Start is called on a channel of the REST-capable variant
CallFacebookStart ==
  /\ hist.call.fn = "none"
  /\ \E cfg \in FacebookConfigs, probe \in Probes :
       Examine([fn |-> "Start", key |-> NoKey,
                in |-> [cfg |-> cfg, probe |-> probe],
                out |-> FacebookStart(cfg, probe)])

\* url.Parse: a URL is a sequence of tokens, the scheme before the colon;
\* a "%" stands for an escape that does not parse
urlParse(u) ==
  [err    |-> \E i \in DOMAIN u : u[i] = "%",
   scheme |-> IF Len(u) >= 2 /\ u[2] = ":" THEN u[1] ELSE ""]

\* validateBridgeURL, called by NewWhatsAppChannel
validateBridgeURL(u) ==
  IF u = <<>> THEN "bridge URL cannot be empty"
  ELSE IF urlParse(u).err THEN "invalid URL format"
  ELSE IF urlParse(u).scheme # "wss" /\ urlParse(u).scheme # "ws"
    THEN "URL scheme must be ws or wss"
    ELSE "none"

\* the head of connect, up to the dialer: the error returned and whether
\* the dialer is called
connectScheme(u) ==
  IF urlParse(u).err THEN [err |-> "invalid URL", dialed |-> FALSE]
  ELSE IF urlParse(u).scheme # "wss" /\ urlParse(u).scheme # "ws"
    THEN [err |-> "URL scheme must be ws or wss", dialed |-> FALSE]
    ELSE [err |-> "none", dialed |-> TRUE]

BridgeURLs ==
  { <<>>, <<"wss", ":", "/", "/", "h">>, <<"ws", ":", "/", "/", "h">>,
    <<"http", ":", "/", "/", "h">>, <<"h">>, <<"wss", ":", "/", "/", "%">> }

\* NewWhatsAppChannel validates the bridge URL; connect is called on the
\* channel it returns
CallConnect ==
  /\ hist.call.fn = "none"
  /\ \E u \in BridgeURLs :
       /\ validateBridgeURL(u) = "none"
       /\ Examine([fn |-> "connect", key |-> NoKey, in |-> u,
                   out |-> connectScheme(u)])

\* NewWhatsAppChannel rejects the bridge URL
CallNewChannelFails ==
  /\ hist.call.fn = "none"
  /\ \E u \in BridgeURLs :
       /\ validateBridgeURL(u) # "none"
       /\ Examine([fn |-> "NewWhatsAppChannel", key |-> NoKey, in |-> u,
                   out |-> [err |-> validateBridgeURL(u), dialed |-> FALSE]])

\* variant that hands an empty allow-list to NewBaseChannel
AllowFromOf_Dropped(cfg) == <<>>
\* NewWhatsAppChannel: the allow-list handed to NewBaseChannel
AllowFromOf(cfg) == cfg.allowFrom

\* BaseChannel.IsAllowed
IsAllowed(allowList, senderID) ==
  allowList = <<>> \/ \E i \in DOMAIN allowList : allowList[i] = senderID

AllowConfigs ==
  [allowFrom : { <<>>, <<"allowed-user">>, <<"allowed-user", "+1234567890">> }]

SenderIDs == {"allowed-user", "+1234567890", "not-allowed-user", "any-user", ""}

\* IsAllowed is called on a channel built from cfg
CallIsAllowed ==
  /\ hist.call.fn = "none"
  /\ \E cfg \in AllowConfigs, id \in SenderIDs :
       Examine([fn |-> "IsAllowed", key |-> NoKey,
                in |-> [allowFrom |-> cfg.allowFrom, senderID |-> id],
                out |-> IsAllowed(AllowFromOf(cfg), id)])

\* ----------------------------------------------------------- specifications
\* the channel's own goroutines: Start, read loop, keepalive, reconnection
Starter ==
  \/ start.ok < MainStarts /\ StartBegin
  \/ StartSetRunning
  \/ StartReset
  \/ StartSpawn

Core ==
  \/ Starter
  \/ \E k \in Loops : ListenTop(k)
  \/ \E k \in Loops : ListenReadErr(k)
  \/ \E k \in Loops : KeepaliveTick(k)
  \/ \E k \in Loops : KeepalivePingOk(k)
  \/ \E k \in Loops : KeepalivePingErr(k)
  \/ \E k \in Loops : KeepaliveError(k)
  \/ TaskShouldRetry
  \/ TaskNextDelayCheck
  \/ TaskNextDelayInc
  \/ TaskNextDelayRead
  \/ TaskNextDelayDouble
  \/ TaskNextDelayCap

Lifecycle == Core \/ TaskReset

\* a bridge that may refuse or accept a handshake and fail at any time
OpenBridge ==
  \/ StartConnectOk(FALSE)
  \/ StartConnectFail
  \/ TaskConnectOk(FALSE)
  \/ TaskConnectFail
  \/ \E h \in Handles : PeerClose(h)

\* the same bridge, accepting MaxAccepts handshakes
Bridge ==
  \/ StartConnectOk(FALSE)
  \/ StartConnectFail
  \/ opened < MaxAccepts /\ TaskConnectOk(FALSE)
  \/ TaskConnectFail
  \/ \E h \in Handles : PeerClose(h)

\* callers of Send
Sender ==
  \/ \E s \in 1..MainCallers, rec \in OutboundRecords : SendBegin(s, rec)
  \/ \E s \in 1..MainCallers : SendWriteOk(s)
  \/ \E s \in 1..MainCallers : SendWriteErr(s)

\* frames from the peer and their reading
Receiver ==
  \/ \E h \in Handles, f \in Frames :
       hist.frames < MainFrames /\ PeerSend(h, f)
  \/ \E k \in Loops : ListenReadFrame(k)
  \/ \E k \in Loops : ListenDispatch(k)

\* the channel with callers of Send, against an arbitrary bridge
Next == Lifecycle \/ Bridge \/ Sender

Spec == Init /\ [][Next]_vars

\* the channel receiving frames, against an arbitrary bridge
RecvNext == Lifecycle \/ Bridge \/ Receiver

RecvSpec == Init /\ [][RecvNext]_vars

\* a channel started once or twice on a bridge that accepts every handshake
\* and keeps its connections open, and that sends frames of every kind
FrameNext ==
  \/ StartBegin
  \/ StartSetRunning
  \/ StartReset
  \/ StartSpawn
  \/ StartConnectOk(FALSE)
  \/ \E k \in Loops : ListenTop(k)
  \/ \E k \in Loops : ListenReadFrame(k)
  \/ \E k \in Loops : ListenDispatch(k)
  \/ \E k \in Loops : KeepaliveTick(k)
  \/ \E k \in Loops : KeepalivePingOk(k)
  \/ \E h \in Handles, f \in AllFrames : PeerSend(h, f)

FrameSpec == Init /\ [][FrameNext]_vars

\* a bridge that accepts every handshake and closes the socket at once
FlapNext ==
  \/ Lifecycle
  \/ StartConnectOk(TRUE)
  \/ TaskConnectOk(TRUE)

FlapSpec == Init /\ [][FlapNext]_vars

\* the channel's goroutines against the open bridge, nobody sending
LeakNext == Lifecycle \/ OpenBridge

LeakSpec == Init /\ [][LeakNext]_vars

\* several goroutines calling Send on a started channel whose peer may
\* close the connection
SendersNext ==
  \/ Starter
  \/ StartConnectOk(FALSE)
  \/ StartConnectFail
  \/ \E s \in Callers, rec \in OutboundRecords : SendBegin(s, rec)
  \/ \E s \in Callers : SendWriteOk(s)
  \/ \E s \in Callers : SendWriteErr(s)
  \/ \E h \in Handles : PeerClose(h)

SendersSpec == Init /\ [][SendersNext]_vars

\* the retry policy driven by one caller: NextDelay and Reset in any order
RetryNextDelay ==
  /\ Len(hist.rets) < MaxCalls
  /\ LET r == NextDelay(attempts, currentDelay) IN
       /\ attempts' = r.attempts
       /\ currentDelay' = r.currentDelay
       /\ hist' = [hist EXCEPT !.rets = Append(@, r.ret)]
  /\ UNCHANGED <<chanVars, start, stop, listen, keepalive, send, task, envVars,
                 bus, wire>>

RetryReset ==
  /\ Len(hist.rets) < MaxCalls
  /\ attempts' = Reset.attempts
  /\ currentDelay' = Reset.currentDelay
  /\ hist' = [hist EXCEPT !.rets = Append(@, -1)]
  /\ UNCHANGED <<chanVars, start, stop, listen, keepalive, send, task, envVars,
                 bus, wire>>

RetryNext == RetryNextDelay \/ RetryReset

RetrySpec == Init /\ [][RetryNext]_vars

\* shutdown: Stop, cancellation of the context, and the exits of the loops
Shutdown ==
  \/ StopClose \/ StopWait \/ StopDisconnect \/ StopSetRunning
  \/ CtxCancel
  \/ \E k \in Loops : ListenExit(k) \/ KeepaliveExit(k)

StopNext == Lifecycle \/ Bridge \/ Shutdown

StopSpec == Init /\ [][StopNext]_vars

\* the reconnection goroutines, as one process
Tasks ==
  \/ TaskShouldRetry \/ TaskNextDelayCheck \/ TaskNextDelayInc
  \/ TaskNextDelayRead \/ TaskNextDelayDouble \/ TaskNextDelayCap
  \/ TaskConnectOk(FALSE) \/ TaskConnectFail \/ TaskReset

\* scheduling: every goroutine that can take a step eventually takes one; a
\* select with a closed stopCh or a cancelled ctx among its ready cases
\* eventually takes it; a read returns at the latest at its deadline
Fairness ==
  /\ \A k \in Loops :
       /\ WF_vars(ListenExit(k))
       /\ WF_vars(ListenReadErr(k))
       /\ WF_vars(ReadDeadline(k))
       /\ SF_vars(KeepaliveExit(k))
       /\ WF_vars(KeepalivePingOk(k) \/ KeepalivePingErr(k))
       /\ WF_vars(KeepaliveError(k))
  /\ WF_vars(Tasks)
  /\ WF_vars(StopWait)
  /\ WF_vars(StopDisconnect)
  /\ WF_vars(StopSetRunning)

\* shutdown against a bridge that refuses every reconnection and a peer
\* that may close the connection or stay silent
FairStopNext ==
  \/ Core
  \/ Shutdown
  \/ StartConnectOk(FALSE)
  \/ StartConnectFail
  \/ TaskConnectFail
  \/ \E h \in Handles : PeerClose(h)
  \/ \E k \in Loops : ReadDeadline(k)

FairStopSpec == Init /\ [][FairStopNext]_vars /\ Fairness

\* ================================================================== claims

\* the effect every detected transport error must have: the channel is no
\* longer connected, the live handle (if any) is closed and cleared, and one
\* more reconnection goroutine has been started
LeftConnected ==
  /\ connected' = FALSE
  /\ conn' = NoConn
  /\ conn # NoConn => conn \in closed'
  /\ BagCardinality(task') = BagCardinality(task) + 1
  /\ BagIn([pc |-> "should", delay |-> 0], task')

\* a read on the snapshot handle failed in this step
ReadFailed ==
  \E k \in Loops : listen[k].pc = "read" /\ listen'[k].pc = "top" /\ inq' = inq

\* the frame write of Send failed in this step
SendWriteFailedBy(s) ==
  send[s].pc = "write" /\ send'[s].pc = "idle" /\ wire' = wire

SendWriteFailed == \E s \in Callers : SendWriteFailedBy(s)

\* the keepalive loop handled a failed ping in this step
PingFailureHandled ==
  \E k \in Loops : keepalive[k].pc = "hce" /\ keepalive'[k].pc # "hce"

\* C1: whenever a read on the live connection, a frame write of Send or a
\* keepalive ping fails, the channel leaves Connected (connected=false,
\* handle closed and cleared) and a reconnection goroutine is started; a
\* failing Send returns the write error to its caller.
C1_TransportErrorsReconnect ==
  [][ /\ (ReadFailed \/ SendWriteFailed \/ PingFailureHandled) => LeftConnected
      /\ \A s \in Callers : SendWriteFailedBy(s) => send'[s].err = "write"
      /\ \A k \in Loops :
           (keepalive[k].pc = "ping" /\ keepalive'[k].pc # "ping")
             => (keepalive'[k].pc = "hce" \/ keepalive[k].h \notin closed)
    ]_vars

C1_Witness ==
  /\ \E s \in Callers : send[s].pc = "idle" /\ send[s].err = "write"
  /\ ~connected /\ conn = NoConn
  /\ BagIn([pc |-> "should", delay |-> 0], task)

\* C2: Send returns the not-connected error, without validating, serialising
\* or writing anything, whenever connected is false or there is no live
\* handle, also after the retry policy is exhausted; nothing is kept for a
\* later delivery.
C2_SendFailsFastWhenNotConnected ==
  [][ \A s \in Callers :
      (send[s].pc = "idle" /\ send'[s] # send[s] /\ (~connected \/ conn = NoConn))
        => /\ send'[s] = [pc |-> "idle", h |-> NoConn, out |-> NoMessage,
                       err |-> "not connected"]
           /\ wire' = wire
           /\ UNCHANGED <<chanVars, retryVars, task, closed>>
    ]_vars

C2_Witness ==
  /\ \E s \in Callers : send[s].pc = "idle" /\ send[s].err = "not connected"
  /\ NoMoreRetries(attempts) /\ ~connected /\ InFlight = {}
  /\ wire = <<>>

ReconnectFailed == hist'.since = hist.since + 1

\* C4: a reconnection goroutine whose connect fails schedules the next
\* attempt itself while the policy is not exhausted, so that the
\* reconnection path alone, without keepalive ticks or Send calls, drives
\* the attempts up to the maximum: the failed attempt is followed by a
\* pending one.
C4_Original ==
  [][ (ReconnectFailed /\ ShouldRetry(attempts))
        => BagCardinality(task') >= BagCardinality(task)
    ]_vars

\* C6: a reconnection goroutine never calls connect after NextDelay
\* returned 0, and in every interleaving the connect attempts made since
\* the last successful connection never exceed the maximum of 5.
C6_Original ==
  /\ \A r \in InFlight : r.pc = "dial" => r.delay # 0
  /\ hist.since <= MaxReconnectAttempts

\* the policy is exhausted and no reconnection attempt is still under way
Exhausted ==
  /\ NoMoreRetries(attempts)
  /\ ~connected
  /\ start.pc = "idle"
  /\ \A r \in InFlight : r.pc = "should"

\* C7: once the retry policy is exhausted the channel stays Degraded:
\* keepalive ticks, read-loop iterations and failed Send calls cause no
\* further connect and connected stays false, until Start is called again.
C7_ExhaustedStaysDegraded ==
  [][ Exhausted
        => \/ /\ Exhausted'
              /\ opened' = opened
              /\ hist'.since = hist.since
              /\ attempts' = attempts
           \/ start'.pc # "idle"
    ]_vars

C7_Witness ==
  /\ Exhausted
  /\ hist.since >= MaxReconnectAttempts
  /\ \E k \in Loops : keepalive[k].pc = "hce"
  /\ \E s \in Callers : send[s].err = "not connected"

\* C8: every successful connection establishment resets the retry policy,
\* so that the first reconnection attempt after any successful connection
\* waits the initial delay.
C8_Original ==
  [][ (hist.fresh /\ ~hist'.fresh) => currentDelay = InitialReconnectDelay ]_vars

\* no goroutine is between a connect and the Reset that follows it, nor
\* inside NextDelay
Quiet == InFlight = {} /\ start.pc = "idle"

\* C5 (as first stated): against a bridge that accepts every handshake and
\* closes the socket at once, the channel goes Degraded once, makes exactly
\* 5 reconnection attempts and stays Degraded.
C5_Original ==
  /\ Cardinality(closed) <= 1
  /\ closed # {} => ~connected

\* C5 (amended): against such a bridge every reconnection attempt succeeds
\* and resets the policy, so the policy is never left exhausted: whenever
\* no reconnection is under way the counters are back at attempts = 0 and
\* the initial delay, and the channel keeps going Degraded and reconnecting.
C5_FlappingNeverExhausts ==
  /\ Quiet => attempts = 0 /\ currentDelay = InitialReconnectDelay
  /\ hist.since = 0

C5_Witness ==
  /\ Quiet
  /\ hist.reconn # {}
  /\ closed # {}
  /\ connected

\* the delays of the default policy, in the order NextDelay returns them
DefaultDelays == <<1, 2, 4, 8, 16>>

\* position of the last Reset in the recorded calls, 0 when there is none
LastReset(rets) ==
  IF \E i \in 1..Len(rets) : rets[i] = -1
    THEN CHOOSE i \in 1..Len(rets) :
           rets[i] = -1 /\ \A j \in (i + 1)..Len(rets) : rets[j] # -1
    ELSE 0

\* C9: with the defaults, NextDelay returns 1s, 2s, 4s, 8s, 16s and then 0
\* for ever; every call returns the current delay, increments attempts and
\* doubles the delay up to the cap; Reset restarts the sequence.
C9_DelaySequence ==
  LET base == LastReset(hist.rets)
      calls == Len(hist.rets) - base IN
    /\ \A i \in 1..calls :
         hist.rets[base + i] =
           IF i <= Len(DefaultDelays) THEN DefaultDelays[i] ELSE 0
    /\ attempts = IF calls <= MaxReconnectAttempts THEN calls
                  ELSE MaxReconnectAttempts
    /\ currentDelay =
         IF attempts < Len(DefaultDelays) THEN DefaultDelays[attempts + 1]
         ELSE MaxReconnectDelay

C9_Witness ==
  /\ Len(hist.rets) >= 8
  /\ hist.rets[1] = 1
  /\ hist.rets[2] = -1
  /\ hist.rets[3] = 1
  /\ hist.rets[7] = 16
  /\ hist.rets[8] = 0

\* C10: after a lost connection and a successful reconnection, reading
\* resumes on the new handle, so every valid message frame the peer sends
\* on the new connection gets delivered: such a frame, unread on a
\* connection the peer keeps up, is on the handle the channel reads.
C10_Original ==
  \A h \in hist.reconn :
    (inq[h] # <<>> /\ Head(inq[h]) = ValidFrame /\ h \notin broken)
      => /\ h \notin closed
         /\ \/ h = conn
            \/ \E k \in Loops : listen[k].pc = "read" /\ listen[k].h = h

\* a call of Stop has returned
Stopped == stop.calls > 0 /\ stop.pc # "panic"

\* C11: Stopped is terminal: once Stop has returned no step opens a new transport handle or sets the channel back to
\* Connected, reconnection goroutines that were waiting out a backoff
\* included; and the channel stops running only inside Stop.
C11_Original ==
  [][ /\ Stopped => (opened' = opened /\ (connected' => connected))
      /\ (running /\ ~running') => stop.pc = "run"
    ]_vars

\* C12: Stop is idempotent: a second call on the same instance completes
\* normally and leaves the channel in the same Stopped state.
C12_Original ==
  /\ stop.pc # "panic"
  /\ (stop.calls = MaxStops /\ stop.pc = "idle")
       => ~running /\ stop.ch

\* C13: when Stop returns, the read loop and the keepalive loop have exited,
\* the transport handle has been closed and cleared, connected and
\* connecting are false and the channel reports not running.
C13_Original ==
  [][ (stop.pc = "run" /\ stop'.pc = "idle")
        => /\ LoopsDone'
           /\ conn' = NoConn
           /\ \A h \in 1..opened' : h \in closed'
           /\ ~connected' /\ ~connecting'
           /\ ~running'
    ]_vars

\* C14: after Stop is called or the context is cancelled the read loop and
\* the keepalive loop eventually exit, and a Stop that waits eventually
\* returns, also when the read loop is blocked on a live connection whose
\* peer stays silent.
C14_LoopsExitAndStopReturns ==
  /\ (stop.ch \/ stop.ctx) ~> LoopsDone
  /\ (stop.pc = "wait") ~> Stopped

C14_Witness ==
  /\ Stopped
  /\ start.ok > 0
  /\ LoopsDone
  /\ hist.expired # {}

\* C15: in every reachable state at most one transport handle is open, and
\* an open handle is the one stored as the live handle: a handle replaced by
\* a reconnect or dropped on an error path has been closed.
C15_Original ==
  \A h \in 1..opened : h \notin closed => h = conn

\* C16: at most one reconnection goroutine is in flight at any time, so the
\* counters of the retry policy are never accessed by two of them at once,
\* whichever of the read loop, the keepalive loop and Send detects the failure.
C16_Original == BagCardinality(task) <= 1

\* C17: concurrent Send calls never write to the live handle at the same
\* time: two callers are never inside the write of the same connection.
C17_Original ==
  \A s, t \in Callers :
    (s # t /\ send[s].pc = "write" /\ send[t].pc = "write")
      => send[s].h # send[t].h

\* the valid message frames the peer sent on handle h, in wire order
SentOn(h) ==
  SelectSeq(hist.sent, LAMBDA e : e[1] = h /\ ValidateIncoming(e[2])
                                    /\ e[2].type = "message")

\* the frames read from handle h that were pushed, in push order
PushedFrom(h) == SelectSeq(hist.pushed, LAMBDA e : e[1] = h)

IsPrefix(a, b) == Len(a) <= Len(b) /\ \A i \in 1..Len(a) : a[i] = b[i]

\* C18: the valid message frames read from a connection are pushed to the
\* bus in wire order, one push per frame, and no two read loops read the
\* same connection.
C18_Original ==
  /\ \A h \in Handles : IsPrefix(PushedFrom(h), SentOn(h))
  /\ Len(bus) = Len(hist.pushed)
  /\ \A i \in 1..Len(bus) : bus[i] = HandleMessage(<<>>, hist.pushed[i][2])[1]
  /\ \A j, k \in Loops :
       (j # k /\ listen[j].pc \in {"read", "frame"}
              /\ listen[k].pc \in {"read", "frame"})
         => listen[j].h # listen[k].h

\* the read loops are between frames and the peer's frames have all been read
FramesDrained ==
  /\ \A k \in Loops : listen[k].pc # "frame"
  /\ \A h \in Handles : inq[h] = <<>>

\* C19: an inbound frame that fails validation is discarded: the step that
\* handles it pushes nothing to the bus, writes nothing, leaves the
\* connection flags, the handle, the retry state and the reconnection tasks
\* as they were and takes the loop back to its next read; and once all frames
\* are read every valid message frame sent on a connection has been pushed.
C19_InvalidFrameDiscarded ==
  /\ [][ \A k \in Loops :
           (listen[k].pc = "frame" /\ listen'[k].pc # "frame"
              /\ ~ValidateIncoming(listen[k].f[1]))
             => /\ bus' = bus /\ wire' = wire
                /\ conn' = conn /\ connected' = connected
                /\ connecting' = connecting
                /\ attempts' = attempts /\ currentDelay' = currentDelay
                /\ task' = task /\ closed' = closed
                /\ listen'[k].pc = "top"
       ]_vars
  /\ [](FramesDrained =>
          \A h \in Handles : Len(PushedFrom(h)) = Len(SentOn(h)))

\* an invalid frame of each sort was discarded and the valid frame sent after
\* it on the same connection reached the bus
C19_WitnessAfter(bad) ==
  /\ hist.sent = <<<<1, bad>>, <<1, ValidFrame>>>>
  /\ FramesDrained
  /\ connected /\ conn = 1
  /\ bus = HandleMessage(<<>>, ValidFrame)

C19_Witness == C19_WitnessAfter(MalformedFrame)

\* C20: the step that handles an inbound frame of kind ping on a Connected
\* channel writes exactly one frame, of kind pong, to the live handle.
C20_Original ==
  [][ \A k \in Loops :
        (listen[k].pc = "frame" /\ listen'[k].pc # "frame"
           /\ listen[k].f[1].type = "ping"
           /\ connected /\ conn # NoConn)
          => /\ Len(wire') = Len(wire) + 1
             /\ wire'[Len(wire')] = <<conn, PongMessage>>
    ]_vars

\* a frame of kind message went through ValidateIncoming and was accepted
InAccepted ==
  /\ hist.call.fn = "ValidateIncoming"
  /\ hist.call.in.type = "message"
  /\ hist.call.out.err = "none"

\* C21: a message frame accepted by ValidateIncoming has, as returned, a
\* non-empty sender and non-empty content or non-empty media; sender and
\* content without media is accepted; content and media both empty is
\* rejected with the content-or-media error.
C21_Original ==
  /\ InAccepted =>
       /\ hist.call.out.msg.from # <<>>
       /\ hist.call.out.msg.content # <<>> \/ hist.call.out.msg.media # <<>>
  /\ (/\ hist.call.fn = "ValidateIncoming"
      /\ hist.call.key = NoKey
      /\ hist.call.in.from = <<"+", "1">>
      /\ hist.call.in.content = <<"A">>
      /\ hist.call.in.media = <<>>)
       => hist.call.out.err = "none"
  /\ (/\ hist.call.fn = "ValidateIncoming"
      /\ hist.call.in.from = <<"+", "1">>
      /\ hist.call.in.content = <<>>
      /\ hist.call.in.media = <<>>)
       => hist.call.out.err = "no content or media"

\* a message went through ValidateOutgoing and was accepted
OutAccepted ==
  /\ hist.call.fn = "ValidateOutgoing"
  /\ hist.call.out.err = "none"

\* no stripped control character, no whitespace at either end
Clean(c) ==
  /\ \A i \in DOMAIN c : c[i] \notin Stripped
  /\ c # <<>> => (c[1] \notin Space /\ c[Len(c)] \notin Space)

\* C22: the content of a message accepted by ValidateIncoming or by
\* ValidateOutgoing holds no control character below 0x20 other than tab,
\* CR and LF, no NUL, and no whitespace at its start or end.
C22_SanitizedContent ==
  (InAccepted \/ OutAccepted) => Clean(hist.call.out.msg.content)

\* a control character followed by a space was stripped and trimmed away
C22_Witness ==
  /\ InAccepted
  /\ hist.call.in.content = <<"NUL", " ", "A">>
  /\ hist.call.out.msg.content = <<"A">>

\* C23: a message frame with a valid sender is rejected as too long when,
\* and only when, what is left of its content after stripping and trimming
\* is longer than MaxContentLength characters.
C23_Original ==
  (/\ hist.call.fn = "ValidateIncoming"
   /\ hist.call.in.type = "message"
   /\ hist.call.in.from = <<"+", "1">>
   /\ hist.call.in.content # <<>>)
    => (hist.call.out.err = "content too long"
          <=> Len(TrimSpace(StripNul(StripControl(hist.call.in.content))))
                > MaxContentLength)

\* the path has a segment that is exactly ".."
HasTraversalSegment(path) ==
  \E i \in 1..(Len(path) - 1) :
    /\ path[i] = "." /\ path[i + 1] = "."
    /\ i = 1 \/ path[i - 1] = "/"
    /\ i + 1 = Len(path) \/ path[i + 2] = "/"

\* the path ends, whatever the case of its letters, in a listed extension
ExtensionListed(path) ==
  \E ext \in validExtensions :
    /\ Len(path) >= Len(ext)
    /\ \A k \in 1..Len(ext) : ToLower(path)[Len(path) - Len(ext) + k] = ext[k]

\* C24: ValidateIncoming (of a message frame) and ValidateOutgoing reject a
\* message one of whose media references has a parent-directory segment,
\* whatever its extension, or an extension that is not listed; a message is
\* accepted only if every media reference passes both checks.
C24_MediaChecked ==
  (/\ hist.call.fn \in {"ValidateIncoming", "ValidateOutgoing"}
   /\ \E i \in DOMAIN hist.call.in.media :
        \/ HasTraversalSegment(hist.call.in.media[i])
        \/ ~ExtensionListed(hist.call.in.media[i]))
    => hist.call.out.err # "none"

\* a reference with a traversal segment and a listed extension, behind a
\* good first reference, made ValidateIncoming reject the frame
C24_Witness ==
  /\ hist.call.fn = "ValidateIncoming"
  /\ hist.call.in.from = <<"+", "1">>
  /\ hist.call.in.content = <<"A">>
  /\ hist.call.in.media = <<PathPng, PathInnerUp>>
  /\ hist.call.out.err = "traversal"

\* C25: with a key configured ValidateIncoming accepts a message frame only
\* if its signature is the keyed hash of the received message with the
\* signature cleared; without a key no frame is rejected for its signature.
C25_Original ==
  /\ (InAccepted /\ hist.call.key # NoKey)
       => hist.call.in.signature =
            calculateSignature(hist.call.key,
              MarshalIncoming([hist.call.in EXCEPT !.signature = <<>>]))
  /\ (hist.call.fn = "ValidateIncoming" /\ hist.call.key = NoKey)
       => hist.call.out.err \notin {"missing signature", "invalid signature"}

\* C26: the serialization of a message signed by ValidateOutgoing passes
\* the inbound signature check under the same key, and fails it with a
\* signature mismatch once its content has been changed.
C26_Original ==
  hist.call.fn = "VerifySignature"
    => IF hist.call.in.tampered
         THEN hist.call.out.err = "invalid signature"
         ELSE hist.call.out.err = "none"

\* C27: after a successful ValidateOutgoing with a key, the signature is the
\* keyed hash of the serialization of the message with the sanitized
\* content, the destination, the final timestamp and no signature; when the
\* destination fails the identifier rule the call fails and attaches no
\* signature.
C27_SignatureCoversCleanMessage ==
  /\ (OutAccepted /\ hist.call.key # NoKey)
       => hist.call.out.msg.signature =
            calculateSignature(hist.call.key,
              MarshalOutgoing(
                [type      |-> "message",
                 to        |-> hist.call.in.to,
                 content   |-> TrimSpace(StripNul(StripControl(hist.call.in.content))),
                 media     |-> hist.call.in.media,
                 timestamp |-> IF hist.call.in.timestamp = 0
                                 THEN Now ELSE hist.call.in.timestamp,
                 signature |-> <<>>]))
  /\ (/\ hist.call.fn = "ValidateOutgoing"
      /\ Len(hist.call.in.to) \notin 1..MaxPhoneLength)
       => /\ hist.call.out.err # "none"
          /\ hist.call.out.msg.signature = hist.call.in.signature

\* a message with untrimmed content, no timestamp and an old signature was
\* sanitized, stamped and signed
C27_Witness ==
  /\ OutAccepted
  /\ hist.call.key = Key1
  /\ hist.call.in.content = <<" ", "A", "LF">>
  /\ hist.call.in.timestamp = 0
  /\ hist.call.in.signature # <<>>
  /\ hist.call.out.msg.content = <<"A">>
  /\ hist.call.out.msg.timestamp = Now
  /\ hist.call.out.msg.signature # hist.call.in.signature

\* the validator, one call at a time
ValidatorNext ==
  \/ CallValidateIncoming
  \/ CallValidateOutgoing
  \/ \E tampered \in BOOLEAN : CallVerifySerialized(tampered)

ValidatorSpec == Init /\ [][ValidatorNext]_vars

\* the validator, construction and the two variants' Start and connect, one
\* call at a time
CallsNext ==
  \/ ValidatorNext
  \/ CallFacebookStart
  \/ CallConnect
  \/ CallNewChannelFails
  \/ CallIsAllowed

CallsSpec == Init /\ [][CallsNext]_vars

\* C28: on the REST variant Start sends the credential probe and returns an
\* error exactly when the probe is not answered with 200; in either case it
\* starts no goroutine, and so opens no socket and leaves nothing running.
C28_RestStartProbesOnly ==
  (hist.call.fn = "Start" /\ useFacebookAPI(hist.call.in.cfg))
    => /\ hist.call.out.probes = 1
       /\ hist.call.out.err # "none"
            <=> (hist.call.in.probe.failed \/ hist.call.in.probe.status # 200)
       /\ hist.call.out.spawned = {}

\* the probe of a REST channel that also has a bridge URL was answered 401
C28_Witness ==
  /\ hist.call.fn = "Start"
  /\ useFacebookAPI(hist.call.in.cfg)
  /\ hist.call.in.cfg.bridgeURL # <<>>
  /\ ~hist.call.in.probe.failed /\ hist.call.in.probe.status = 401
  /\ hist.call.out.err = "credential validation failed"

\* C29: connect does not go on to the dialer with a ws:// bridge URL (the
\* configuration has no setting that allows insecure transport); only
\* wss:// leads to a connection attempt.
C29_Original ==
  hist.call.fn = "connect"
    => (hist.call.out.dialed => urlParse(hist.call.in).scheme = "wss")

\* C30: IsAllowed returns true for every sender when the configured
\* allow-list is empty, and otherwise exactly for the members of the list.
C30_AllowList ==
  hist.call.fn = "IsAllowed"
    => (hist.call.out <=>
          \/ Len(hist.call.in.allowFrom) = 0
          \/ hist.call.in.senderID \in
               {hist.call.in.allowFrom[i] : i \in DOMAIN hist.call.in.allowFrom})

\* a sender that is not listed was refused by a channel with two listed
C30_Witness ==
  /\ hist.call.fn = "IsAllowed"
  /\ Len(hist.call.in.allowFrom) = 2
  /\ hist.call.in.senderID = "not-allowed-user"
  /\ hist.call.out = FALSE

\* C31: a frame of kind status is accepted by ValidateIncoming exactly when it
\* carries a non-empty id and a status among sent, delivered, read and failed;
\* the step that handles a status frame hands it to the status handler in
\* that case and in no other.
C31_StatusFrameAccepted ==
  [][ \A k \in Loops :
        (listen[k].pc = "frame" /\ listen'[k].pc # "frame"
           /\ listen[k].f[1].type = "status")
          => LET f == listen[k].f[1]
                 ok == /\ f.id # <<>>
                       /\ f.status \in {"sent", "delivered", "read", "failed"}
             IN /\ ValidateIncoming(f) <=> ok
                /\ hist'.status = IF ok THEN Append(hist.status, <<f.id, f.status>>)
                                        ELSE hist.status
    ]_vars

\* a status frame without id and a well-formed one arrived on the same
\* connection and only the second reached the status handler
C31_Witness ==
  /\ hist.sent = <<<<1, NoIdStatusFrame>>, <<1, StatusFrame>>>>
  /\ FramesDrained
  /\ hist.status = <<<<StatusFrame.id, StatusFrame.status>>>>

\* C32: in every state the connected flag is true exactly when a handle is
\* stored, and the stored handle is one the channel has not closed.
C32_ConnectedIffHandle ==
  /\ connected <=> conn # NoConn
  /\ conn \notin closed

\* a connection was torn down and the stored handle is one the reconnection
\* installed
C32_Witness ==
  /\ connected
  /\ conn \in hist.reconn
  /\ closed # {}

\* C33: a read or a write that fails on a handle that is no longer the stored
\* one leaves the stored handle, the connected flag and the set of closed
\* handles as they were and starts no reconnection task.
C33_Original ==
  [][ /\ \A k \in Loops :
           (listen[k].pc = "read" /\ listen'[k].pc = "top"
              /\ listen[k].h # conn)
             => /\ conn' = conn /\ connected' = connected
                /\ closed' = closed /\ task' = task
      /\ \A s \in Callers :
           (send[s].pc = "write" /\ send'[s].pc = "idle" /\ wire' = wire
              /\ send[s].h # conn)
             => /\ conn' = conn /\ connected' = connected
                /\ closed' = closed /\ task' = task
    ]_vars

\* C34: at any time at most one read loop and at most one keepalive loop of
\* the instance are running, also after Start is called again on an instance
\* that is Connected.
C34_Original ==
  /\ Cardinality({k \in Loops : listen[k].pc \notin {"off", "done"}}) <= 1
  /\ Cardinality({k \in Loops : keepalive[k].pc \notin {"off", "done"}}) <= 1

\* C35: in every state attempts lies between 0 and the maximum of 5, and in
\* every state where no reconnection task is in the middle of NextDelay the
\* current delay lies between the initial delay and the cap.
C35_Original ==
  /\ attempts \in 0..MaxReconnectAttempts
  /\ (\A r \in InFlight : r.pc \notin {"inc", "read", "double", "cap"})
       => currentDelay \in InitialReconnectDelay..MaxReconnectDelay

\* C36: a read loop that was running when the channel left Connected starts
\* no further read: it never again takes a handle to read from.
C36_Original ==
  [][ \A k \in Loops :
        (listen[k].pc = "top" /\ listen'[k].pc = "read")
          => k \notin hist.left
    ]_vars

\* C37: the step that handles a valid frame of kind status, error or pong
\* pushes nothing to the bus, writes nothing, and leaves the connected and
\* connecting flags, the stored handle, the retry state, the reconnection
\* tasks and the running flag as they were.
C37_ControlFrameNoEffect ==
  [][ \A k \in Loops :
        (listen[k].pc = "frame" /\ listen'[k].pc # "frame"
           /\ ValidateIncoming(listen[k].f[1])
           /\ listen[k].f[1].type \in {"status", "error", "pong"})
          => /\ bus' = bus /\ wire' = wire
             /\ connected' = connected /\ connecting' = connecting
             /\ conn' = conn /\ closed' = closed
             /\ attempts' = attempts /\ currentDelay' = currentDelay
             /\ task' = task
             /\ running' = running
    ]_vars

\* an error frame and a pong frame were handled on a running, Connected
\* channel, which is still running and Connected with an empty bus
C37_Witness ==
  /\ hist.sent = <<<<1, ErrorFrame>>, <<1, PongFrame>>>>
  /\ FramesDrained
  /\ running /\ connected /\ conn = 1
  /\ bus = <<>>

\* C38: a Send call writes its frame at most once and never retries: a call
\* that is at its write leaves it in one step, either with the frame appended
\* once to the wire and nil returned or with the wire untouched and the write
\* error returned, and keeps no frame; nothing else puts a frame on the wire,
\* so no frame reaches it after its call has returned.
C38_SendWritesOnce ==
  [][ /\ \A s \in Callers :
           (send[s].pc = "write" /\ send'[s] # send[s])
             => /\ send'[s].pc = "idle"
                /\ send'[s].out = NoMessage
                /\ \/ /\ send'[s].err = "none"
                      /\ wire' = Append(wire, <<send[s].h, send[s].out>>)
                   \/ /\ send'[s].err = "write"
                      /\ wire' = wire
      /\ wire' # wire
           => \E s \in Callers : send[s].pc = "write" /\ send'[s].pc = "idle"
    ]_vars

\* a write failed, the call returned the error, the channel has reconnected
\* since, and the frame of the failed call is not on the wire
C38_Witness ==
  /\ \E s \in Callers : send[s].pc = "idle" /\ send[s].err = "write"
  /\ connected /\ conn \in hist.reconn
  /\ InFlight = {}
  /\ wire = <<>>

\* C39: with a key configured, ValidateIncoming never rejects a frame of kind
\* status, error, ping or pong for its signature, and accepts it exactly when
\* the fields of its kind are in order (id and status for a status, a
\* non-empty error of at most 500 bytes for an error, nothing for a ping or
\* a pong), whatever its signature field holds.
C39_SignatureIgnoredForControlFrames ==
  (/\ hist.call.fn = "ValidateIncoming"
   /\ hist.call.key # NoKey
   /\ hist.call.in.type \in {"status", "error", "ping", "pong"})
    => /\ hist.call.out.err \notin {"missing signature", "invalid signature"}
       /\ hist.call.out.err = "none"
            <=> /\ hist.call.in.type = "status"
                     => /\ hist.call.in.id # <<>>
                        /\ hist.call.in.status \in
                             {"sent", "delivered", "read", "failed"}
                /\ hist.call.in.type = "error"
                     => /\ hist.call.in.error # <<>>
                        /\ Len(hist.call.in.error) <= 500

\* a well-formed status frame signed under another key was accepted
C39_Witness ==
  /\ hist.call.fn = "ValidateIncoming"
  /\ hist.call.key = Key1
  /\ hist.call.in.type = "status"
  /\ hist.call.in.signature =
       calculateSignature(Key2, MarshalIncoming(
         [hist.call.in EXCEPT !.signature = <<>>]))
  /\ hist.call.out.err = "none"

====
